---- MODULE Spec2Model ----
(***************************************************************************)
(* Model of renorm.dev/observable: lazily evaluated predicates, the        *)
(* polymorphic negation operator Not, the predicate builders with their    *)
(* sync.Once guards, and the Assert adapter.                               *)
(*                                                                         *)
(* Go values are records tagged by "kind".  Function values carry their    *)
(* reflect type (typ) and a description of their body; calling one is the  *)
(* state-passing interpreter Invoke, which threads the effect state st     *)
(* (user-function call counts, received parameters, once cells).           *)
(***************************************************************************)
EXTENDS Integers, Sequences, FiniteSets

(***************************************************************************)
(* Bounds of the model.                                                    *)
(***************************************************************************)
MaxNot == 2          \* nested applications of Not
MaxOps == 3          \* Ok() / Message() / call / Assert operations per run
MaxVariadic == 2     \* variadic arguments passed at a call site
MaxThreads == 2      \* goroutines of the concurrent first-touch model
MaxChildren == 2     \* children of Any and All in the concurrent model

(***************************************************************************)
(* Go values.                                                              *)
(***************************************************************************)
IntV(i) == [kind |-> "int", v |-> i]
StrV(s) == [kind |-> "string", s |-> s]
BoolV(b) == [kind |-> "bool", b |-> b]
Text(toks) == [kind |-> "text", toks |-> toks]
Err(e) == [kind |-> "error", e |-> e]
NilErr == Err("<nil>")
NilIface == [kind |-> "invalid"]
Unit == [kind |-> "unit"]
\* a map[int]int: items is the function from its keys to its values
Map(items, isnil) == [kind |-> "map", items |-> items, isnil |-> isnil]
Slice(elem, items, isnil) == [kind |-> "slice", elem |-> elem, items |-> items, isnil |-> isnil]
PanicVal == [kind |-> "panic"]

FuncT(name, in, variadic, out) == [name |-> name, in |-> in, variadic |-> variadic, out |-> out]
Func(typ, body) == [kind |-> "func", typ |-> typ, body |-> body]

ThunkT == FuncT("func() bool", <<>>, FALSE, <<"bool">>)
MsgT == FuncT("func() string", <<>>, FALSE, <<"string">>)

\* type Predicate struct { ok func() bool; msg func() string }
Predicate(okBody, msgBody) ==
  [kind |-> "Predicate", ok |-> Func(ThunkT, okBody), msg |-> Func(MsgT, msgBody)]

SliceT(elem) ==
  CASE elem = "any" -> "[]any"
    [] elem = "int" -> "[]int"
    [] elem = "Predicate" -> "[]Predicate"
    [] OTHER -> "[]T"

\* reflect.TypeOf(v), as the name of the type
TypeOf(v) ==
  CASE v.kind = "func" -> v.typ.name
    [] v.kind = "slice" -> SliceT(v.elem)
    [] v.kind = "map" -> "map[int]int"
    [] v.kind = "invalid" -> "nil"
    [] OTHER -> v.kind

\* reflect.Type.AssignableTo for the types of the model
AssignableTo(vt, t) == t = "any" \/ vt = t

(***************************************************************************)
(* fmt verbs, as token sequences whose concatenation is the Go string.     *)
(***************************************************************************)
RECURSIVE Join(_)
Join(toks) ==
  IF Len(toks) = 0 THEN <<>>
  ELSE IF Len(toks) = 1 THEN toks[1]
  ELSE toks[1] \o <<" ">> \o Join(Tail(toks))

\* strconv.Itoa, digit by digit
Digit(d) == <<"0", "1", "2", "3", "4", "5", "6", "7", "8", "9">>[d + 1]

RECURSIVE Itoa(_)
Itoa(n) ==
  IF n < 0 THEN <<"-">> \o Itoa(0 - n)
  ELSE IF n < 10 THEN <<Digit(n)>>
  ELSE Itoa(n \div 10) \o <<Digit(n % 10)>>

RECURSIVE FmtV(_)
FmtV(v) ==
  CASE v.kind = "int" -> Itoa(v.v)
    [] v.kind = "string" -> <<v.s>>
    [] v.kind = "bool" -> <<IF v.b THEN "true" ELSE "false">>
    [] v.kind = "error" -> <<v.e>>
    [] v.kind = "invalid" -> <<"<nil>">>
    [] v.kind = "text" -> v.toks
    [] v.kind = "map" -> <<"map[">>
         \o Join([i \in 1..Cardinality(DOMAIN v.items) |->
                    LET k == CHOOSE k \in DOMAIN v.items :
                               Cardinality({j \in DOMAIN v.items : j < k}) = i - 1
                    IN Itoa(k) \o <<":">> \o Itoa(v.items[k])])
         \o <<"]">>
    [] v.kind = "slice" -> <<"[">> \o Join([i \in 1..Len(v.items) |-> FmtV(v.items[i])]) \o <<"]">>
    [] OTHER -> <<"?">>

\* fmt.Sprintf(format, args...): format is split at its verbs, each %v takes
\* the next argument
RECURSIVE Sprintf(_, _)
Sprintf(format, args) ==
  IF Len(format) = 0 THEN <<>>
  ELSE IF Head(format) # "%v" THEN <<Head(format)>> \o Sprintf(Tail(format), args)
  ELSE IF Len(args) = 0 THEN <<"%!v(MISSING)">> \o Sprintf(Tail(format), args)
  ELSE FmtV(Head(args)) \o Sprintf(Tail(format), Tail(args))

\* %#v
FmtGoV(v) ==
  CASE v.kind = "string" -> <<"\"", v.s, "\"">>
    [] v.kind = "invalid" -> <<"<nil>">>
    [] OTHER -> FmtV(v)

(***************************************************************************)
(* Effect state and results of the interpreter.                            *)
(***************************************************************************)
UserIds == {"constT", "constF", "flip", "seven", "counter", "boom",
            "errFoo", "errNil", "panicker", "quiet",
            "isOne", "mkThunk", "lenIs2", "lenIs2i", "two"}

\* calls and recv count and record the calls of the user functions, cells are
\* the captured variables of the closures, log is the history of the calls a
\* combinator has made of the thunks of its children
InitSt == [calls |-> [id \in UserIds |-> 0],
           recv |-> [id \in UserIds |-> <<>>],
           cells |-> <<>>,
           log |-> <<>>]

R(s, ret) == [st |-> s, ret |-> ret, panic |-> FALSE]
P(s) == [st |-> s, ret |-> PanicVal, panic |-> TRUE]

NewCell(zero) == [done |-> FALSE, val |-> zero, runs |-> 0]
Alloc(s, zero) == [s EXCEPT !.cells = Append(@, NewCell(zero))]

SetCell(s, c, cell) == [s EXCEPT !.cells[c] = cell]

(***************************************************************************)
(* User-supplied functions: the inputs of the library.  UserRet(id, params,*)
(* k) is what function id returns on its call number k+1 with params.      *)
(***************************************************************************)
UserT(id) ==
  CASE id \in {"constT", "constF", "flip"} -> ThunkT
    [] id \in {"seven", "counter", "boom"} -> FuncT("func() int", <<>>, FALSE, <<"int">>)
    [] id \in {"errFoo", "errNil"} -> FuncT("func() error", <<>>, FALSE, <<"error">>)
    [] id \in {"panicker", "quiet"} -> FuncT("func()", <<>>, FALSE, <<>>)
    [] id = "isOne" -> FuncT("func(int) bool", <<"int">>, FALSE, <<"bool">>)
    [] id = "mkThunk" -> FuncT("func(int) func() bool", <<"int">>, FALSE, <<"func() bool">>)
    [] id = "lenIs2" -> FuncT("func(string, ...any) Predicate", <<"string", "any">>, TRUE, <<"Predicate">>)
    [] id = "lenIs2i" -> FuncT("func(string, ...int) Predicate", <<"string", "int">>, TRUE, <<"Predicate">>)
    [] id = "two" -> FuncT("func() (Predicate, error)", <<>>, FALSE, <<"Predicate", "error">>)

UserFunc(id) == Func(UserT(id), [b |-> "user", id |-> id])

(***************************************************************************)
(* Builders without a once guard.                                          *)
(***************************************************************************)
Nil(v) == Predicate([b |-> "Nil.ok", v |-> v], [b |-> "Nil.msg", v |-> v])
Zero(v) == Predicate([b |-> "Zero.ok", v |-> v], [b |-> "Zero.msg", v |-> v])
Equal(got, want) ==
  Predicate([b |-> "Equal.ok", got |-> got, want |-> want],
            [b |-> "Equal.msg", got |-> got, want |-> want])
True == Predicate([b |-> "True.ok"], [b |-> "True.msg"])
False == Predicate([b |-> "False.ok"], [b |-> "False.msg"])
Length(s, want) ==
  Predicate([b |-> "Length.ok", s |-> s, want |-> want],
            [b |-> "Length.msg", s |-> s, want |-> want])
Errors(f) == Predicate([b |-> "Errors.ok", f |-> f], [b |-> "Errors.msg"])
ErrorsWith(f, target) ==
  Predicate([b |-> "ErrorsWith.ok", f |-> f, target |-> target],
            [b |-> "ErrorsWith.msg", target |-> target])
Panics(f) == Predicate([b |-> "Panics.ok", f |-> f], [b |-> "Panics.msg"])

UserRet(id, params, k) ==
  CASE id = "constT" -> BoolV(TRUE)
    [] id = "constF" -> BoolV(FALSE)
    [] id = "flip" -> BoolV(k % 2 = 0)
    [] id = "seven" -> IntV(7)
    [] id = "counter" -> IntV(k + 1)
    [] id \in {"boom", "panicker"} -> PanicVal
    [] id = "errFoo" -> Err("foo")
    [] id = "errNil" -> NilErr
    [] id = "quiet" -> Unit
    [] id = "isOne" -> BoolV(params[1] = IntV(1))
    [] id = "mkThunk" -> UserFunc("flip")
    [] id \in {"lenIs2", "lenIs2i"} -> Length(params[2], IntV(2))
    [] id = "two" -> Unit

(***************************************************************************)
(* Builders with a once guard: the predicate's two closures share a cell.  *)
(***************************************************************************)
\* mutant: no guard, the function runs on every Do
OnceFreshAlways(s, c) == TRUE

\* the cell's guard: sync.Once runs its function only on the first Do
OnceFresh(s, c) == ~s.cells[c].done

\* the interpreter, defined below
RECURSIVE Invoke(_, _, _)
RECURSIVE Collect(_, _, _, _)

\* mutant: f is called when the predicate is built
ReturnsEager(f, want, s) ==
  LET r == Invoke(f, <<>>, s)
      c == Len(s.cells) + 1
  IN IF r.panic THEN r
     ELSE R([r.st EXCEPT !.cells = Append(@, [done |-> TRUE, val |-> r.ret, runs |-> 1])],
            Predicate([b |-> "Returns.ok", cell |-> c, f |-> f, want |-> want],
                      [b |-> "Returns.msg", cell |-> c, f |-> f, want |-> want]))

Returns(f, want, s) ==
  LET c == Len(s.cells) + 1 IN
  R(Alloc(s, IntV(0)),
    Predicate([b |-> "Returns.ok", cell |-> c, f |-> f, want |-> want],
              [b |-> "Returns.msg", cell |-> c, f |-> f, want |-> want]))

Msgs(items) == [kind |-> "msgs", items |-> items]

Any(ps, s) ==
  LET c == Len(s.cells) + 1 IN
  R(Alloc(s, Msgs(<<>>)),
    Predicate([b |-> "Any.ok", cell |-> c, ps |-> ps],
              [b |-> "Any.msg", cell |-> c, ps |-> ps]))

All(ps, s) ==
  LET c == Len(s.cells) + 1 IN
  R(Alloc(s, Msgs(<<>>)),
    Predicate([b |-> "All.ok", cell |-> c, ps |-> ps],
              [b |-> "All.msg", cell |-> c, ps |-> ps]))

SequenceDeepEqual(got, want, s) ==
  LET c == Len(s.cells) + 1 IN
  R(Alloc(s, BoolV(FALSE)),
    Predicate([b |-> "SequenceDeepEqual.ok", cell |-> c, got |-> got, want |-> want],
              [b |-> "SequenceDeepEqual.msg", cell |-> c, got |-> got, want |-> want]))

ElementsMatch(got, want, s) ==
  LET c == Len(s.cells) + 1 IN
  R(Alloc(s, BoolV(FALSE)),
    Predicate([b |-> "ElementsMatch.ok", cell |-> c, got |-> got, want |-> want],
              [b |-> "ElementsMatch.msg", cell |-> c, got |-> got, want |-> want]))

MapEqual(got, want, s) ==
  LET c == Len(s.cells) + 1 IN
  R(Alloc(s, BoolV(FALSE)),
    Predicate([b |-> "MapEqual.ok", cell |-> c, got |-> got, want |-> want],
              [b |-> "MapEqual.msg", cell |-> c, got |-> got, want |-> want]))

\* RegexpMatches[string](s, reOrString): re is compiled on the first evaluation
RegexpMatches(str, pattern, s) ==
  LET c == Len(s.cells) + 1 IN
  R(Alloc(s, NilIface),
    Predicate([b |-> "RegexpMatches.ok", cell |-> c, s |-> str, re |-> pattern],
              [b |-> "RegexpMatches.msg", cell |-> c, s |-> str, re |-> pattern]))

\* reflect.DeepEqual on slices and maps of ints: nil differs from empty
DeepEqual(a, b) == a.isnil = b.isnil /\ a.items = b.items

\* count := func(s []T) map[T]int
Count(sl) ==
  [e \in {sl.items[i] : i \in 1..Len(sl.items)} |->
     Cardinality({i \in 1..Len(sl.items) : sl.items[i] = e})]

\* a builder used as a function value (Not(observable.Equal[string]) ...)
BuilderT(name) ==
  CASE name = "Equal" -> FuncT("func(string, string) Predicate", <<"string", "string">>, FALSE, <<"Predicate">>)
    [] name = "Nil" -> FuncT("func(any) Predicate", <<"any">>, FALSE, <<"Predicate">>)
    [] name = "Zero" -> FuncT("func(string) Predicate", <<"string">>, FALSE, <<"Predicate">>)
    [] name \in {"True", "False"} -> FuncT("func() Predicate", <<>>, FALSE, <<"Predicate">>)
    [] name = "Returns" -> FuncT("func(func() int, int) Predicate", <<"func() int", "int">>, FALSE, <<"Predicate">>)
    [] name = "Errors" -> FuncT("func(func() error) Predicate", <<"func() error">>, FALSE, <<"Predicate">>)
    [] name = "ErrorsWith" -> FuncT("func(func() error, error) Predicate", <<"func() error", "error">>, FALSE, <<"Predicate">>)
    [] name = "Panics" -> FuncT("func(func()) Predicate", <<"func()">>, FALSE, <<"Predicate">>)
    [] name \in {"Any", "All"} -> FuncT("func(...Predicate) Predicate", <<"Predicate">>, TRUE, <<"Predicate">>)
    [] name = "MapEqual" -> FuncT("func(map[int]int, map[int]int) Predicate", <<"map[int]int", "map[int]int">>, FALSE, <<"Predicate">>)
    [] name \in {"SequenceDeepEqual", "ElementsMatch"} -> FuncT("func([]int, []int) Predicate", <<"[]int", "[]int">>, FALSE, <<"Predicate">>)
    [] name = "RegexpMatches" -> FuncT("func(string, string) Predicate", <<"string", "string">>, FALSE, <<"Predicate">>)

BuilderFunc(name) == Func(BuilderT(name), [b |-> "builder", name |-> name])

\* the body of a builder, run on its parameter vector
Build(name, params, s) ==
  CASE name = "Equal" -> R(s, Equal(params[1], params[2]))
    [] name = "Nil" -> R(s, Nil(params[1]))
    [] name = "Zero" -> R(s, Zero(params[1]))
    [] name = "True" -> R(s, True)
    [] name = "False" -> R(s, False)
    [] name = "Errors" -> R(s, Errors(params[1]))
    [] name = "ErrorsWith" -> R(s, ErrorsWith(params[1], params[2]))
    [] name = "Panics" -> R(s, Panics(params[1]))
    [] name = "Returns" -> Returns(params[1], params[2], s)
    [] name = "Any" -> Any(params[1].items, s)
    [] name = "All" -> All(params[1].items, s)
    [] name = "SequenceDeepEqual" -> SequenceDeepEqual(params[1], params[2], s)
    [] name = "ElementsMatch" -> ElementsMatch(params[1], params[2], s)
    [] name = "MapEqual" -> MapEqual(params[1], params[2], s)
    [] name = "RegexpMatches" -> RegexpMatches(params[1], params[2], s)

(***************************************************************************)
(* The interpreter.  Invoke(f, params, s) runs the body of the function    *)
(* value f on the parameter vector params (for a variadic f the last       *)
(* parameter is the slice of the variadic arguments) from effect state s.  *)
(***************************************************************************)
\* func (p Predicate) Ok() bool { return p.ok() }
Ok(p, s) == Invoke(p.ok, <<>>, s)

\* func (p Predicate) Message() string { return p.msg() }
Message(p, s) == Invoke(p.msg, <<>>, s)

ZeroOf(v) ==
  CASE v.kind = "string" -> StrV("")
    [] v.kind = "int" -> IntV(0)
    [] v.kind = "bool" -> BoolV(FALSE)
    [] OTHER -> NilIface

\* isNil := func(x any) bool
IsNil(x) ==
  \/ x.kind = "invalid"
  \/ x.kind = "slice" /\ x.isnil
  \/ x.kind = "func" /\ x.body.b = "nil"

\* errors.Is for errors that wrap nothing
ErrorsIs(err, target) == err = target

\* a user function: counts the call, remembers what it received
UserBody(b, params, s) ==
  LET k == s.calls[b.id]
      s1 == [s EXCEPT !.calls[b.id] = k + 1, !.recv[b.id] = params]
      ret == UserRet(b.id, params, k)
  IN IF ret.kind = "panic" THEN P(s1) ELSE R(s1, ret)

\* ok: func() bool { return !v.Ok() }
NotOk(b, s) ==
  LET r == Ok(b.v, s) IN
  IF r.panic THEN r ELSE R(r.st, BoolV(~r.ret.b))

\* msg: func() string { return "not: " + v.Message() }
NotMsg(b, s) ==
  LET r == Message(b.v, s) IN
  IF r.panic THEN r ELSE R(r.st, Text(<<"not: ">> \o r.ret.toks))

\* mutant: the wrapped function is called twice
NotThunkTwice(b, s) ==
  LET r == Invoke(b.v, <<>>, Invoke(b.v, <<>>, s).st) IN
  IF r.panic THEN r ELSE R(r.st, BoolV(~r.ret.b))

\* func() bool { return !v() }
NotThunk(b, s) ==
  LET r == Invoke(b.v, <<>>, s) IN
  IF r.panic THEN r ELSE R(r.st, BoolV(~r.ret.b))

\* mutant: a panic of f leaves the once unused
ReturnsEvalRetry(b, s) ==
  IF ~OnceFresh(s, b.cell) THEN R(s, Unit)
  ELSE LET r == Invoke(b.f, <<>>, s)
           c == r.st.cells[b.cell]
       IN IF r.panic
          THEN P(r.st)
          ELSE R(SetCell(r.st, b.cell, [done |-> TRUE, val |-> r.ret, runs |-> c.runs + 1]), Unit)

\* eval := func() { once.Do(func() { got = f() }) }
ReturnsEval(b, s) ==
  IF ~OnceFresh(s, b.cell) THEN R(s, Unit)
  ELSE LET r == Invoke(b.f, <<>>, s)
           c == r.st.cells[b.cell]
       IN IF r.panic
          THEN P(SetCell(r.st, b.cell, [c EXCEPT !.done = TRUE, !.runs = @ + 1]))
          ELSE R(SetCell(r.st, b.cell, [done |-> TRUE, val |-> r.ret, runs |-> c.runs + 1]), Unit)

\* mutant: ok compares the result of a call of its own
ReturnsOkDirect(b, s) ==
  LET r == Invoke(b.f, <<>>, ReturnsEval(b, s).st) IN
  IF r.panic THEN r ELSE R(r.st, BoolV(r.ret = b.want))

\* ok: func() bool { eval(); return got == want }
ReturnsOk(b, s) ==
  LET e == ReturnsEval(b, s) IN
  IF e.panic THEN e ELSE R(e.st, BoolV(e.st.cells[b.cell].val = b.want))

\* msg: func() string { eval(); return fmt.Sprintf("expected %v, got %v", want, got) }
ReturnsMsg(b, s) ==
  LET e == ReturnsEval(b, s) IN
  IF e.panic THEN e
  ELSE R(e.st, Text(<<"expected ">> \o FmtV(b.want) \o <<", got ">> \o FmtV(e.st.cells[b.cell].val)))

\* ok: func() bool { return f() != nil }
ErrorsOk(b, s) ==
  LET r == Invoke(b.f, <<>>, s) IN
  IF r.panic THEN r ELSE R(r.st, BoolV(r.ret # NilErr))

\* ok: func() bool { return errors.Is(f(), target) }
ErrorsWithOk(b, s) ==
  LET r == Invoke(b.f, <<>>, s) IN
  IF r.panic THEN r ELSE R(r.st, BoolV(ErrorsIs(r.ret, b.target)))

\* mutant: no recover, the panic of f goes on to the caller
PanicsOkRethrow(b, s) ==
  LET r == Invoke(b.f, <<>>, s) IN IF r.panic THEN r ELSE R(r.st, BoolV(FALSE))

\* ok: func() (panicked bool) { defer func() { if recover() != nil {...} }(); f(); return }
PanicsOk(b, s) ==
  LET r == Invoke(b.f, <<>>, s) IN R(r.st, BoolV(r.panic))

\* the combinator of cell c calls thunk of its child i
ChildCall(s, c, i, thunk) ==
  [s EXCEPT !.log = Append(@, [cell |-> c, child |-> i, thunk |-> thunk])]

\* mutant: the loop stops at the first failing child
CollectShort(ps, i, s, c) ==
  IF i > Len(ps) THEN R(s, Unit)
  ELSE LET r == Ok(ps[i], ChildCall(s, c, i, "Ok")) IN
       IF r.panic THEN r
       ELSE IF r.ret.b THEN Collect(ps, i + 1, r.st, c)
       ELSE LET m == Message(ps[i], ChildCall(r.st, c, i, "Message")) IN
            IF m.panic THEN m
            ELSE R([m.st EXCEPT !.cells[c].val = Msgs(Append(@.items, m.ret.toks))], Unit)

\* for _, p := range ps { if !p.Ok() { msgs = append(msgs, p.Message()) } }
Collect(ps, i, s, c) ==
  IF i > Len(ps) THEN R(s, Unit)
  ELSE LET r == Ok(ps[i], ChildCall(s, c, i, "Ok")) IN
       IF r.panic THEN r
       ELSE IF r.ret.b THEN Collect(ps, i + 1, r.st, c)
       ELSE LET m == Message(ps[i], ChildCall(r.st, c, i, "Message")) IN
            IF m.panic THEN m
            ELSE Collect(ps, i + 1,
                         [m.st EXCEPT !.cells[c].val = Msgs(Append(@.items, m.ret.toks))], c)

\* mutant: the loop runs on every call
CollectEvalAlways(b, s) ==
  LET r == Collect(b.ps, 1, s, b.cell)
      s1 == [r.st EXCEPT !.cells[b.cell].done = TRUE, !.cells[b.cell].runs = @ + 1]
  IN IF r.panic THEN P(s1) ELSE R(s1, Unit)

\* eval := func() { once.Do(func() { for ... }) }   (Any and All)
CollectEval(b, s) ==
  IF ~OnceFresh(s, b.cell) THEN R(s, Unit)
  ELSE LET r == Collect(b.ps, 1, s, b.cell)
           s1 == [r.st EXCEPT !.cells[b.cell].done = TRUE, !.cells[b.cell].runs = @ + 1]
       IN IF r.panic THEN P(s1) ELSE R(s1, Unit)

\* mutant: Any passes when no more children fail than there are children
AnyOkLoose(b, s) ==
  LET e == CollectEval(b, s) IN
  IF e.panic THEN e ELSE R(e.st, BoolV(Len(e.st.cells[b.cell].val.items) <= Len(b.ps)))

\* ok: func() bool { eval(); return len(msgs) < len(ps) }
AnyOk(b, s) ==
  LET e == CollectEval(b, s) IN
  IF e.panic THEN e ELSE R(e.st, BoolV(Len(e.st.cells[b.cell].val.items) < Len(b.ps)))

\* ok: func() bool { eval(); return len(msgs) == 0 }
AllOk(b, s) ==
  LET e == CollectEval(b, s) IN
  IF e.panic THEN e ELSE R(e.st, BoolV(Len(e.st.cells[b.cell].val.items) = 0))

\* msg: func() string { eval(); return fmt.Sprintf("...: %v", msgs) }
CollectMsg(b, s, head) ==
  LET e == CollectEval(b, s) IN
  IF e.panic THEN e
  ELSE R(e.st, Text(<<head, "[">> \o Join(e.st.cells[b.cell].val.items) \o <<"]">>))

\* check := func() { once.Do(func() { match = reflect.DeepEqual(...) }) }
CheckEval(b, s, cmp) ==
  IF ~OnceFresh(s, b.cell) THEN s
  ELSE SetCell(s, b.cell, [done |-> TRUE, val |-> BoolV(cmp), runs |-> s.cells[b.cell].runs + 1])

Compare(b) ==
  IF b.b \in {"ElementsMatch.ok", "ElementsMatch.msg"}
  THEN Count(b.got) = Count(b.want)
  ELSE DeepEqual(b.got, b.want)

\* ok: func() bool { check(); return match }
CheckOk(b, s) ==
  LET s1 == CheckEval(b, s, Compare(b)) IN R(s1, s1.cells[b.cell].val)

\* msg: func() string { check(); return fmt.Sprintf(...) }
CheckMsg(b, s) ==
  LET s1 == CheckEval(b, s, Compare(b)) IN
  R(s1, Text(IF b.b = "ElementsMatch.msg"
             THEN <<"expected ">> \o FmtV(b.got) \o <<" and ">> \o FmtV(b.want)
                  \o <<" to contain the same elements">>
             ELSE IF b.b = "MapEqual.msg"
             THEN <<"expected maps to be equal\nwant: ">> \o FmtV(b.want)
                  \o <<"\ngot:  ">> \o FmtV(b.got)
             ELSE <<"expected slice ">> \o FmtV(b.want) \o <<", got ">> \o FmtV(b.got)))

\* eval := func() { once.Do(func() { ... re = regexp.MustCompile(x) }) }
RegexpEval(b, s) ==
  IF ~OnceFresh(s, b.cell) THEN s
  ELSE SetCell(s, b.cell, [done |-> TRUE, val |-> b.re, runs |-> s.cells[b.cell].runs + 1])

\* re.MatchString(s) for a literal pattern and strings of at most one
\* character: the pattern occurs in s
MatchString(re, str) == re.s = "" \/ re.s = str.s

\* ok: func() bool { eval(); return re.MatchString(s) }
RegexpOk(b, s) ==
  LET s1 == RegexpEval(b, s) IN R(s1, BoolV(MatchString(s1.cells[b.cell].val, b.s)))

\* msg: func() string { eval(); return fmt.Sprintf("expected %q to match %q", s, re.String()) }
RegexpMsg(b, s) ==
  LET s1 == RegexpEval(b, s) IN
  R(s1, Text(<<"expected ", "\"", b.s.s, "\"", " to match ", "\"",
              s1.cells[b.cell].val.s, "\"">>))

\* reflect.Value.Call(in): a variadic function gets its slice built from the
\* arguments past the fixed ones, each of which must be assignable to the
\* element type
ReflectCall(f, in, s) ==
  LET t == f.typ
      n == IF t.variadic THEN Len(t.in) - 1 ELSE Len(t.in)
  IN IF Len(in) < n \/ (~t.variadic /\ Len(in) > n) THEN P(s)
     ELSE IF \E i \in 1..n : ~AssignableTo(TypeOf(in[i]), t.in[i]) THEN P(s)
     ELSE IF ~t.variadic THEN Invoke(f, in, s)
     ELSE IF \E i \in (n + 1)..Len(in) : ~AssignableTo(TypeOf(in[i]), t.in[n + 1]) THEN P(s)
     ELSE Invoke(f, SubSeq(in, 1, n)
                    \o <<Slice(t.in[n + 1], SubSeq(in, n + 1, Len(in)), FALSE)>>, s)

\* the negation of an assertion value returned by the wrapped function
Negated(out, v) ==
  CASE out = "bool" -> BoolV(~v.b)
    [] out = "func() bool" -> Func(ThunkT, [b |-> "Not.thunk", v |-> v])
    [] out = "Predicate" -> Predicate([b |-> "Not.ok", v |-> v], [b |-> "Not.msg", v |-> v])

\* reflect.MakeFunc(rt, func(args []reflect.Value) []reflect.Value { ... rv.Call(args)[0] ... })
NotWrap(b, args, s) ==
  LET r == ReflectCall(b.rv, args, s) IN
  IF r.panic THEN r ELSE R(r.st, Negated(b.out, r.ret))

Invoke(f, params, s) ==
  LET b == f.body IN
  CASE b.b = "user" -> UserBody(b, params, s)
    [] b.b = "builder" -> Build(b.name, params, s)
    [] b.b = "nil" -> P(s)
    [] b.b = "Not.ok" -> NotOk(b, s)
    [] b.b = "Not.msg" -> NotMsg(b, s)
    [] b.b = "Not.thunk" -> NotThunk(b, s)
    [] b.b = "Not.wrap" -> NotWrap(b, params, s)
    [] b.b = "Nil.ok" -> R(s, BoolV(IsNil(b.v)))
    [] b.b = "Nil.msg" -> R(s, Text(<<"expected ">> \o FmtGoV(b.v) \o <<" to be nil">>))
    [] b.b = "Zero.ok" -> R(s, BoolV(b.v = ZeroOf(b.v)))
    [] b.b = "Zero.msg" -> R(s, Text(<<"expected zero value, got ">> \o FmtV(b.v)))
    [] b.b = "Equal.ok" -> R(s, BoolV(b.got = b.want))
    [] b.b = "Equal.msg" -> R(s, Text(<<"expected ">> \o FmtV(b.want) \o <<", got ">> \o FmtV(b.got)))
    [] b.b = "True.ok" -> R(s, BoolV(TRUE))
    [] b.b = "True.msg" -> R(s, Text(<<"true">>))
    [] b.b = "False.ok" -> R(s, BoolV(FALSE))
    [] b.b = "False.msg" -> R(s, Text(<<"false">>))
    [] b.b = "Length.ok" -> R(s, BoolV(Len(b.s.items) = b.want.v))
    [] b.b = "Length.msg" -> R(s, Text(<<"expected length ">> \o FmtV(b.want) \o <<", got ">>
                                       \o Itoa(Len(b.s.items))))
    [] b.b = "Returns.ok" -> ReturnsOk(b, s)
    [] b.b = "Returns.msg" -> ReturnsMsg(b, s)
    [] b.b = "Errors.ok" -> ErrorsOk(b, s)
    [] b.b = "Errors.msg" -> R(s, Text(<<"expected function to return a non-nil error">>))
    [] b.b = "ErrorsWith.ok" -> ErrorsWithOk(b, s)
    [] b.b = "ErrorsWith.msg" -> R(s, Text(<<"expected returned error to match ">> \o FmtV(b.target)))
    [] b.b = "Panics.ok" -> PanicsOk(b, s)
    [] b.b = "Panics.msg" -> R(s, Text(<<"expected function to panic">>))
    [] b.b = "Any.ok" -> AnyOk(b, s)
    [] b.b = "Any.msg" -> CollectMsg(b, s, "expected any to be true, all failed: ")
    [] b.b = "All.ok" -> AllOk(b, s)
    [] b.b = "All.msg" -> CollectMsg(b, s, "expected all to be true, failures: ")
    [] b.b = "RegexpMatches.ok" -> RegexpOk(b, s)
    [] b.b = "RegexpMatches.msg" -> RegexpMsg(b, s)
    [] b.b \in {"SequenceDeepEqual.ok", "ElementsMatch.ok", "MapEqual.ok"} -> CheckOk(b, s)
    [] b.b \in {"SequenceDeepEqual.msg", "ElementsMatch.msg", "MapEqual.msg"} -> CheckMsg(b, s)

\* a call expression f(a1, ..., ak): the compiler packs the arguments past
\* the fixed parameters of a variadic f into one slice
Apply(f, args, s) ==
  LET t == f.typ
      n == Len(t.in) - 1
  IN IF t.variadic
     THEN Invoke(f, SubSeq(args, 1, n)
                    \o <<Slice(t.in[n + 1], SubSeq(args, n + 1, Len(args)), Len(args) = n)>>, s)
     ELSE Invoke(f, args, s)

(***************************************************************************)
(* Not.  The result is [panic, val, st]: Not either returns val or panics; *)
(* st is the effect state it leaves (Not calls nothing, so st is s).       *)
(***************************************************************************)
NotRet(v, s) == [panic |-> FALSE, val |-> v, st |-> s]
NotPanic(s) == [panic |-> TRUE, val |-> PanicVal, st |-> s]

\* mutant: the wrapper takes its last parameter as a plain slice
MakeFuncFixed(rt, rv, out) ==
  Func([rt EXCEPT !.variadic = FALSE], [b |-> "Not.wrap", rv |-> rv, out |-> out])

\* reflect.MakeFunc(rt, func(args) { ... }).Interface().(F)
MakeFunc(rt, rv, out) == Func(rt, [b |-> "Not.wrap", rv |-> rv, out |-> out])

\* mutant: the predicate is returned as it is
NotPredicateSame(v, s) == NotRet(v, s)

\* case Predicate: return Predicate{ok: ..., msg: ...}
NotPredicate(v, s) ==
  NotRet(Predicate([b |-> "Not.ok", v |-> v], [b |-> "Not.msg", v |-> v]), s)

\* mutant: the bool is returned as it is
NotBoolSame(v, s) == NotRet(v, s)

\* case bool: return !v
NotBool(v, s) == NotRet(BoolV(~v.b), s)

\* case func() bool: return func() bool { return !v() }
NotFuncBool(v, s) == NotRet(Func(ThunkT, [b |-> "Not.thunk", v |-> v]), s)

\* mutant: an unsupported argument yields a nil function instead of a panic
NotReflectSilent(x, s) ==
  IF x.kind = "func" /\ Len(x.typ.out) = 1
       /\ x.typ.out[1] \in {"bool", "func() bool", "Predicate"}
  THEN NotRet(MakeFunc(x.typ, x, x.typ.out[1]), s)
  ELSE NotRet([kind |-> "func", typ |-> FuncT("nil", <<>>, FALSE, <<>>), body |-> [b |-> "nil"]], s)

\* the reflection fallback: rv := reflect.ValueOf(x) ... switch out { ... }
NotReflect(x, s) ==
  IF x.kind # "func" THEN NotPanic(s)
  ELSE IF Len(x.typ.out) # 1 THEN NotPanic(s)
  ELSE CASE x.typ.out[1] = "bool" -> NotRet(MakeFunc(x.typ, x, "bool"), s)
         [] x.typ.out[1] = "func() bool" -> NotRet(MakeFunc(x.typ, x, "func() bool"), s)
         [] x.typ.out[1] = "Predicate" -> NotRet(MakeFunc(x.typ, x, "Predicate"), s)
         [] OTHER -> NotPanic(s)

\* func Not[F any](x F) F
Not(x, s) ==
  CASE x.kind = "Predicate" -> NotPredicate(x, s)
    [] x.kind = "bool" -> NotBool(x, s)
    [] x.kind = "func" /\ x.typ = ThunkT -> NotFuncBool(x, s)
    [] OTHER -> NotReflect(x, s)

(***************************************************************************)
(* The Not of observable.go: the same three typed cases, but an unsupported *)
(* argument yields the zero value of F and only functions returning a       *)
(* Predicate are wrapped.                                                   *)
(***************************************************************************)
\* var zero F
ZeroF(x) == IF x.kind = "func" THEN Func(x.typ, [b |-> "nil"]) ELSE ZeroOf(x)

\* mutant: the fallback of the newer Not, which panics
NotReflectZeroPanics(x, s) == NotReflect(x, s)

\* rv := reflect.ValueOf(x); if rv.Kind() != reflect.Func { return zero } ...
NotReflectZero(x, s) ==
  IF x.kind # "func" THEN NotRet(ZeroF(x), s)
  ELSE IF Len(x.typ.out) # 1 \/ x.typ.out[1] # "Predicate" THEN NotRet(ZeroF(x), s)
  ELSE NotRet(MakeFunc(x.typ, x, "Predicate"), s)

\* func Not[F any](x F) F   (observable.go)
NotObservableGo(x, s) ==
  CASE x.kind = "Predicate" -> NotPredicate(x, s)
    [] x.kind = "bool" -> NotBool(x, s)
    [] x.kind = "func" /\ x.typ = ThunkT -> NotFuncBool(x, s)
    [] OTHER -> NotReflectZero(x, s)

(***************************************************************************)
(* The failure sink and the assertion adapter.                             *)
(***************************************************************************)
\* testspy.SpyTB: Error records a soft failure, Fatal and FailNow panic.
\* errors counts the calls of Error, message is the argument of the last one,
\* hard counts the calls of Fatal / Fatalf / FailNow
InitTB == [errors |-> 0, message |-> <<>>, hard |-> 0]

\* return any(a).(func() bool)(), ""
assertFunc(r) == [st |-> r.st, panic |-> r.panic, ok |-> ~r.panic /\ r.ret.b, msg |-> <<>>]

\* return p.Ok(), p.Message(): the message once Ok has returned r
assertMessage(r, m) ==
  IF m.panic THEN [st |-> m.st, panic |-> TRUE, ok |-> FALSE, msg |-> <<>>]
  ELSE [st |-> m.st, panic |-> FALSE, ok |-> r.ret.b, msg |-> m.ret.toks]

\* mutant: the message is built only for a failing predicate
assertPredicateLazy(p, r) ==
  IF r.panic THEN [st |-> r.st, panic |-> TRUE, ok |-> FALSE, msg |-> <<>>]
  ELSE IF r.ret.b THEN [st |-> r.st, panic |-> FALSE, ok |-> TRUE, msg |-> <<>>]
  ELSE assertMessage(r, Message(p, r.st))

assertPredicate(p, r) ==
  IF r.panic THEN [st |-> r.st, panic |-> TRUE, ok |-> FALSE, msg |-> <<>>]
  ELSE assertMessage(r, Message(p, r.st))

\* func assert[T Assertion](a T) (ok bool, autoMsg string)
assert(a, s) ==
  CASE a.kind = "bool" -> [st |-> s, panic |-> FALSE, ok |-> a.b, msg |-> <<>>]
    [] a.kind = "func" -> assertFunc(Invoke(a, <<>>, s))
    [] a.kind = "Predicate" -> assertPredicate(a, Ok(a, s))

\* mutant: a failure is reported through tb.Fatal
observeFatal(t, ok, message) ==
  IF ok THEN [tb |-> t, ret |-> TRUE]
  ELSE [tb |-> [t EXCEPT !.hard = @ + 1], ret |-> FALSE]

\* func observe(tb testing.TB, ok bool, message string) bool
observe(t, ok, message) ==
  IF ok THEN [tb |-> t, ret |-> TRUE]
  ELSE [tb |-> [t EXCEPT !.errors = @ + 1, !.message = message], ret |-> FALSE]

(***************************************************************************)
(* Inputs of a run.                                                        *)
(***************************************************************************)
IntSlices == {Slice("int", <<>>, TRUE), Slice("int", <<IntV(1), IntV(2)>>, FALSE),
              Slice("int", <<IntV(2), IntV(1)>>, FALSE)}

IntMaps == {Map(<<>>, TRUE), Map([k \in {1} |-> 7], FALSE), Map([k \in {1} |-> 1], FALSE)}

\* argument values of each parameter type
ValuesOf(t) ==
  CASE t = "int" -> {IntV(1), IntV(7)}
    [] t = "string" -> {StrV("a"), StrV("")}
    [] t = "any" -> {NilIface, IntV(1)}
    [] t = "error" -> {Err("foo"), Err("bar")}
    [] t = "Predicate" -> {True, False, Errors(UserFunc("errNil"))}
    [] t = "func() int" -> {UserFunc("seven"), UserFunc("counter"), UserFunc("boom")}
    [] t = "func() error" -> {UserFunc("errFoo"), UserFunc("errNil")}
    [] t = "func()" -> {UserFunc("panicker"), UserFunc("quiet")}
    [] t = "[]int" -> IntSlices
    [] t = "map[int]int" -> IntMaps

RECURSIVE ArgSeqs(_)
ArgSeqs(types) ==
  IF Len(types) = 0 THEN {<<>>}
  ELSE {<<v>> \o rest : v \in ValuesOf(Head(types)), rest \in ArgSeqs(Tail(types))}

\* the argument lists of the call expressions f(...) that type-check
ArgsFor(f) ==
  LET t == f.typ IN
  IF f.kind # "func" THEN {}
  ELSE IF ~t.variadic THEN ArgSeqs(t.in)
  ELSE LET n == Len(t.in) - 1 IN
       UNION {ArgSeqs(SubSeq(t.in, 1, n) \o [i \in 1..m |-> t.in[n + 1]]) : m \in 0..MaxVariadic}

\* the values of T a test hands to a generic builder as want: the zero value
\* of T is one of them
Wants == {IntV(0)} \cup ValuesOf("int")

\* the argument lists of the call expressions that build a predicate
BuilderArgs(name) ==
  IF name = "Returns"
  THEN {<<f, want>> : f \in ValuesOf("func() int"), want \in Wants}
  ELSE ArgsFor(BuilderFunc(name))

BuilderNames == {"Equal", "Nil", "Zero", "True", "False", "Returns", "Errors", "ErrorsWith",
                 "Panics", "Any", "All", "SequenceDeepEqual", "ElementsMatch", "MapEqual",
                 "RegexpMatches"}

\* values a test can hand to Not, Assert or a call without building anything
PlainValues ==
  {BoolV(TRUE), BoolV(FALSE), IntV(42), NilIface}
    \cup {UserFunc(id) : id \in UserIds}
    \cup {BuilderFunc(name) : name \in BuilderNames}

\* the format and arguments a test hands to Assertf
Formats == {[format |-> <<"want ", "%v">>, args |-> <<IntV(7)>>]}

None == [kind |-> "none"]
NoOp == [op |-> "none", on |-> None, args |-> <<>>, ret |-> None, panic |-> FALSE, errs |-> 0,
         auto |-> <<>>]
NoCall == [done |-> FALSE, fn |-> None, args |-> <<>>, pre |-> InitSt]
ZeroN == [ok |-> 0, msg |-> 0, call |-> 0]

\* x and the values it negates: Not(p) keeps p, Not(f) keeps f
RECURSIVE Chain(_)
Chain(v) ==
  IF v.kind = "Predicate" /\ v.ok.body.b = "Not.ok" THEN {v} \cup Chain(v.ok.body.v)
  ELSE IF v.kind = "func" /\ v.body.b = "Not.thunk" THEN {v} \cup Chain(v.body.v)
  ELSE {v}

RECURSIVE Base(_)
Base(v) ==
  IF v.kind = "Predicate" /\ v.ok.body.b = "Not.ok" THEN Base(v.ok.body.v)
  ELSE IF v.kind = "func" /\ v.body.b = "Not.thunk" THEN Base(v.body.v)
  ELSE v

RECURSIVE Depth(_)
Depth(v) ==
  IF v.kind = "Predicate" /\ v.ok.body.b = "Not.ok" THEN 1 + Depth(v.ok.body.v)
  ELSE IF v.kind = "func" /\ v.body.b = "Not.thunk" THEN 1 + Depth(v.body.v)
  ELSE 0

(***************************************************************************)
(* The sequential state machine: a test builds a value, negates it, calls  *)
(* it, evaluates it and asserts on it.                                     *)
(***************************************************************************)
VARIABLES
  x,       \* the value under test
  orig,    \* the value as first built, before any Not
  nots,    \* applications of Not so far
  st,      \* the effect state
  pre,     \* the effect state before the last operation
  last,    \* the last operation and its outcome
  call,    \* the last call of a function that returned a lazy value
  n,       \* Ok() / Message() / calls made on x and the values it negates
  ops,     \* operations performed
  tb,      \* the failure sink
  once,    \* concurrent model: the sync.Once (done flag, mutex owner)
  memo,    \* concurrent model: the memoized variable and the run counter
  thr      \* concurrent model: the goroutines

vars == <<x, orig, nots, st, pre, last, call, n, ops, tb, once, memo, thr>>
concVars == <<once, memo, thr>>
seqVars == <<x, orig, nots, st, pre, last, call, n, ops, tb>>

InitSeq ==
  /\ x = None /\ orig = None /\ nots = 0
  /\ st = InitSt /\ pre = InitSt
  /\ last = NoOp /\ call = NoCall /\ n = ZeroN /\ ops = 0 /\ tb = InitTB

InitConcIdle ==
  /\ once = [done |-> FALSE, owner |-> 0]
  /\ memo = [kind |-> "none", val |-> <<>>, runs |-> 0, step |-> 0, want |-> 0]
  /\ thr = [t \in 1..MaxThreads |-> [pc |-> "idle", op |-> "none", ret |-> None, panicking |-> FALSE]]

Init == InitSeq /\ InitConcIdle

\* the outcome r of operation op on value on is recorded
Record(op, on, args, r) ==
  /\ st' = r.st /\ pre' = st
  /\ last' = [op |-> op, on |-> on, args |-> args, ret |-> r.ret, panic |-> r.panic, errs |-> 0,
              auto |-> <<>>]

\* a test takes a plain value
Take(v) ==
  /\ x = None
  /\ x' = v /\ orig' = v
  /\ UNCHANGED <<nots, st, pre, last, call, n, ops, tb>>

Built(name, args, r) ==
  /\ x' = r.ret /\ orig' = r.ret
  /\ Record("build", BuilderFunc(name), args, r)

\* a test builds a predicate: the call expression Builder(args...)
Construct(name, args) ==
  /\ x = None
  /\ Built(name, args, Apply(BuilderFunc(name), args, st))
  /\ UNCHANGED <<nots, call, n, ops, tb>>

Negate(r) ==
  /\ x' = r.val
  /\ st' = r.st /\ pre' = st
  /\ last' = [op |-> "Not", on |-> x, args |-> <<>>, ret |-> r.val, panic |-> r.panic, errs |-> 0,
              auto |-> <<>>]

\* y := Not(x)
DoNot ==
  /\ x.kind \notin {"none", "panic"}
  /\ nots < MaxNot
  /\ Negate(Not(x, st))
  /\ nots' = nots + 1
  /\ UNCHANGED <<orig, call, n, ops, tb>>

\* p.Ok() on x or on a predicate it negates
DoOk(p) ==
  /\ x.kind = "Predicate" /\ ops < MaxOps
  /\ Record("Ok", p, <<>>, Ok(p, st))
  /\ n' = [n EXCEPT !.ok = @ + 1]
  /\ ops' = ops + 1
  /\ UNCHANGED <<x, orig, nots, call, tb>>

\* p.Message() on x or on a predicate it negates
DoMessage(p) ==
  /\ x.kind = "Predicate" /\ ops < MaxOps
  /\ Record("Message", p, <<>>, Message(p, st))
  /\ n' = [n EXCEPT !.msg = @ + 1]
  /\ ops' = ops + 1
  /\ UNCHANGED <<x, orig, nots, call, tb>>

\* g() on x or on a func() bool it negates
DoCallThunk(g) ==
  /\ x.kind = "func" /\ x.typ = ThunkT /\ ops < MaxOps
  /\ Record("thunk", g, <<>>, Apply(g, <<>>, st))
  /\ n' = [n EXCEPT !.call = @ + 1]
  /\ ops' = ops + 1
  /\ UNCHANGED <<x, orig, nots, call, tb>>

\* the test goes on with the result of a call when it is itself lazy
Follow(r) == ~r.panic /\ r.ret.kind \in {"func", "Predicate"}

Called(args, r) ==
  /\ Record("call", x, args, r)
  /\ call' = [done |-> TRUE, fn |-> x, args |-> args, pre |-> st]
  /\ x' = IF Follow(r) THEN r.ret ELSE x
  /\ n' = IF Follow(r) THEN ZeroN ELSE [n EXCEPT !.call = @ + 1]

\* y := x(args...) for a function x with parameters or a lazy result (the
\* direct call of a builder is Construct)
DoCall(args) ==
  /\ x.kind = "func" /\ x.typ # ThunkT /\ Len(x.typ.out) = 1 /\ ops < MaxOps
  /\ x.body.b # "builder"
  /\ Called(args, Apply(x, args, st))
  /\ ops' = ops + 1
  /\ UNCHANGED <<orig, nots, tb>>

\* the outcome of Assert / Assertf: a is what assert returned (ok, autoMsg),
\* o what observe did and returned
Asserted(op, args, a, o) ==
  /\ st' = a.st /\ pre' = st
  /\ tb' = IF a.panic THEN tb ELSE o.tb
  /\ last' = [op |-> op, on |-> x, args |-> args,
              ret |-> IF a.panic THEN PanicVal ELSE BoolV(o.ret), panic |-> a.panic,
              errs |-> IF a.panic THEN 0 ELSE o.tb.errors - tb.errors,
              auto |-> IF a.panic THEN <<>> ELSE a.msg]
  /\ n' = CASE x.kind = "Predicate" /\ a.panic -> [n EXCEPT !.ok = @ + 1]
            [] x.kind = "Predicate" /\ ~a.panic -> [n EXCEPT !.ok = @ + 1, !.msg = @ + 1]
            [] x.kind = "func" -> [n EXCEPT !.call = @ + 1]
            [] OTHER -> n

\* ok, msg := assert(a); return observe(tb, ok, msg)
Observed(a) == Asserted("Assert", <<>>, a, observe(tb, a.ok, a.msg))

\* func Assert[T Assertion](tb testing.TB, a T) bool
AssertTB ==
  /\ \/ x.kind \in {"bool", "Predicate"}
     \/ x.kind = "func" /\ x.typ = ThunkT
  /\ ops < MaxOps
  /\ Observed(assert(x, st))
  /\ ops' = ops + 1
  /\ UNCHANGED <<x, orig, nots, call>>

\* mutant: Assertf reports the auto message
ObservedfAuto(f, a) ==
  Asserted("Assertf", <<Text(f.format)>> \o f.args, a, observe(tb, a.ok, a.msg))

\* ok, _ := assert(a); return observe(tb, ok, fmt.Sprintf(format, args...))
Observedf(f, a) ==
  Asserted("Assertf", <<Text(f.format)>> \o f.args, a, observe(tb, a.ok, Sprintf(f.format, f.args)))

\* func Assertf[T Assertion](tb testing.TB, a T, format string, args ...any) bool
AssertfTB(f) ==
  /\ \/ x.kind \in {"bool", "Predicate"}
     \/ x.kind = "func" /\ x.typ = ThunkT
  /\ ops < MaxOps
  /\ Observedf(f, assert(x, st))
  /\ ops' = ops + 1
  /\ UNCHANGED <<x, orig, nots, call>>

Next ==
  \/ \E v \in PlainValues : Take(v) /\ UNCHANGED concVars
  \/ \E name \in BuilderNames : \E args \in BuilderArgs(name) :
       Construct(name, args) /\ UNCHANGED concVars
  \/ DoNot /\ UNCHANGED concVars
  \/ \E p \in Chain(x) : DoOk(p) /\ UNCHANGED concVars
  \/ \E p \in Chain(x) : DoMessage(p) /\ UNCHANGED concVars
  \/ \E g \in Chain(x) : DoCallThunk(g) /\ UNCHANGED concVars
  \/ \E args \in ArgsFor(x) : DoCall(args) /\ UNCHANGED concVars
  \/ AssertTB /\ UNCHANGED concVars
  \/ \E f \in Formats : AssertfTB(f) /\ UNCHANGED concVars

Spec == Init /\ [][Next]_vars

\* y := Not(x) with the Not of observable.go
DoNotObservableGo ==
  /\ x.kind \notin {"none", "panic"}
  /\ nots < MaxNot
  /\ Negate(NotObservableGo(x, st))
  /\ nots' = nots + 1
  /\ UNCHANGED <<orig, call, n, ops, tb>>

\* the same tests against the package as observable.go has it
NextObservableGo ==
  \/ \E v \in PlainValues : Take(v) /\ UNCHANGED concVars
  \/ \E name \in BuilderNames : \E args \in BuilderArgs(name) :
       Construct(name, args) /\ UNCHANGED concVars
  \/ DoNotObservableGo /\ UNCHANGED concVars
  \/ \E p \in Chain(x) : DoOk(p) /\ UNCHANGED concVars
  \/ \E p \in Chain(x) : DoMessage(p) /\ UNCHANGED concVars
  \/ \E g \in Chain(x) : DoCallThunk(g) /\ UNCHANGED concVars
  \/ \E args \in ArgsFor(x) : DoCall(args) /\ UNCHANGED concVars
  \/ AssertTB /\ UNCHANGED concVars
  \/ \E f \in Formats : AssertfTB(f) /\ UNCHANGED concVars

SpecObservableGo == Init /\ [][NextObservableGo]_vars

(***************************************************************************)
(* Concurrent first touch.  Several goroutines call Ok() or Message() on   *)
(* one memoized predicate; every step of sync.Once.Do and of the guarded   *)
(* function is a separate action.                                          *)
(*   func (o *Once) Do(f func()) { if o.done.Load() == 0 { o.doSlow(f) } } *)
(*   func (o *Once) doSlow(f func()) {                                     *)
(*       o.m.Lock(); defer o.m.Unlock()                                    *)
(*       if o.done.Load() == 0 { defer o.done.Store(1); f() } }            *)
(***************************************************************************)
Threads == 1..MaxThreads

BoolSeqs(k) == UNION {[1..m -> BOOLEAN] : m \in 0..k}

\* the predicates under concurrent first touch
Memos ==
  {[kind |-> "Returns", fpanics |-> fp, fret |-> IntV(r), want |-> IntV(w), ps |-> <<>>,
    got |-> Slice("int", <<>>, TRUE), val |-> IntV(0), tmp |-> IntV(0),
    runs |-> 0, calls |-> 0, step |-> 0] : fp \in BOOLEAN, r \in {0, 7}, w \in {0, 7}}
  \cup
  {[kind |-> k, fpanics |-> FALSE, fret |-> IntV(0), want |-> IntV(0), ps |-> ps,
    got |-> Slice("int", <<>>, TRUE), val |-> Msgs(<<>>), tmp |-> IntV(0),
    runs |-> 0, calls |-> 0, step |-> 0] : k \in {"Any", "All"}, ps \in BoolSeqs(MaxChildren)}
  \cup
  {[kind |-> "ElementsMatch", fpanics |-> FALSE, fret |-> IntV(0), want |-> w, ps |-> <<>>,
    got |-> g, val |-> BoolV(FALSE), tmp |-> IntV(0),
    runs |-> 0, calls |-> 0, step |-> 0] : g \in IntSlices, w \in IntSlices}

\* steps of the guarded function
Steps(m) ==
  CASE m.kind = "Returns" -> 2
    [] m.kind \in {"Any", "All"} -> Len(m.ps)
    [] m.kind = "ElementsMatch" -> 1

\* one step of the guarded function: Returns calls f and then assigns got;
\* Any and All evaluate one child and append its message if it failed;
\* ElementsMatch assigns match
RunStep(m) ==
  CASE m.kind = "Returns" /\ m.step = 0 ->
         [m EXCEPT !.calls = @ + 1, !.tmp = m.fret, !.step = 1]
    [] m.kind = "Returns" /\ m.step = 1 -> [m EXCEPT !.val = m.tmp, !.step = 2]
    [] m.kind \in {"Any", "All"} ->
         [m EXCEPT !.step = @ + 1,
                   !.val = IF m.ps[m.step + 1] THEN @ ELSE Msgs(Append(@.items, <<"false">>))]
    [] m.kind = "ElementsMatch" ->
         [m EXCEPT !.step = 1, !.val = BoolV(Count(m.got) = Count(m.want))]

\* what ok / msg return after eval(): computed from the memoized variable
Result(op, m) ==
  CASE m.kind = "Returns" /\ op = "Ok" -> BoolV(m.val = m.want)
    [] m.kind = "Returns" /\ op = "Message" ->
         Text(<<"expected ">> \o FmtV(m.want) \o <<", got ">> \o FmtV(m.val))
    [] m.kind = "Any" /\ op = "Ok" -> BoolV(Len(m.val.items) < Len(m.ps))
    [] m.kind = "Any" /\ op = "Message" ->
         Text(<<"expected any to be true, all failed: ", "[">> \o Join(m.val.items) \o <<"]">>)
    [] m.kind = "All" /\ op = "Ok" -> BoolV(Len(m.val.items) = 0)
    [] m.kind = "All" /\ op = "Message" ->
         Text(<<"expected all to be true, failures: ", "[">> \o Join(m.val.items) \o <<"]">>)
    [] m.kind = "ElementsMatch" /\ op = "Ok" -> m.val
    [] m.kind = "ElementsMatch" /\ op = "Message" ->
         Text(<<"expected ">> \o FmtV(m.got) \o <<" and ">> \o FmtV(m.want)
              \o <<" to contain the same elements">>)

\* mutant: the flag counts as set while another goroutine holds the mutex
OnceDoneLoadBusy(o) == o.done \/ o.owner # 0

\* Do: o.done.Load() != 0
OnceDoneLoad(o) == o.done

\* mutant: no second look at the flag under the mutex
OnceMustRunAlways(o) == TRUE

\* doSlow: if o.done.Load() == 0
OnceMustRun(o) == ~o.done

InitConc ==
  /\ InitSeq
  /\ once = [done |-> FALSE, owner |-> 0]
  /\ memo \in Memos
  /\ thr = [t \in Threads |-> [pc |-> "idle", op |-> "none", ret |-> None, panicking |-> FALSE]]

\* goroutine t calls p.Ok() or p.Message(): eval() starts
Begin(t, op) ==
  /\ thr[t].pc = "idle"
  /\ thr' = [thr EXCEPT ![t].pc = "load", ![t].op = op]
  /\ UNCHANGED <<once, memo>>

\* Do: the fast path
Load(t) ==
  /\ thr[t].pc = "load"
  /\ thr' = [thr EXCEPT ![t].pc = IF OnceDoneLoad(once) THEN "read" ELSE "lock"]
  /\ UNCHANGED <<once, memo>>

\* doSlow: o.m.Lock()
Lock(t) ==
  /\ thr[t].pc = "lock" /\ once.owner = 0
  /\ once' = [once EXCEPT !.owner = t]
  /\ thr' = [thr EXCEPT ![t].pc = "check"]
  /\ UNCHANGED memo

\* doSlow: the second look at the flag; f() starts
Check(t) ==
  /\ thr[t].pc = "check"
  /\ IF OnceMustRun(once)
     THEN /\ memo' = [memo EXCEPT !.runs = @ + 1, !.step = 0]
          /\ thr' = [thr EXCEPT ![t].pc = "run"]
     ELSE /\ memo' = memo
          /\ thr' = [thr EXCEPT ![t].pc = "unlock"]
  /\ UNCHANGED once

\* f(): one step of the guarded function, its return or its panic
Run(t) ==
  /\ thr[t].pc = "run"
  /\ IF memo.step >= Steps(memo)
     THEN /\ memo' = memo
          /\ thr' = [thr EXCEPT ![t].pc = "store"]
     ELSE IF memo.kind = "Returns" /\ memo.step = 0 /\ memo.fpanics
     THEN /\ memo' = [memo EXCEPT !.calls = @ + 1]
          /\ thr' = [thr EXCEPT ![t].pc = "store", ![t].panicking = TRUE]
     ELSE /\ memo' = RunStep(memo)
          /\ thr' = thr
  /\ UNCHANGED once

\* doSlow: the deferred o.done.Store(1)
Store(t) ==
  /\ thr[t].pc = "store"
  /\ once' = [once EXCEPT !.done = TRUE]
  /\ thr' = [thr EXCEPT ![t].pc = "unlock"]
  /\ UNCHANGED memo

\* doSlow: the deferred o.m.Unlock(); a panic of f goes on to the caller
Unlock(t) ==
  /\ thr[t].pc = "unlock"
  /\ once' = [once EXCEPT !.owner = 0]
  /\ thr' = [thr EXCEPT ![t].pc = IF thr[t].panicking THEN "panicked" ELSE "read"]
  /\ UNCHANGED memo

\* ok / msg: the code after eval() reads the memoized variable and returns
Read(t) ==
  /\ thr[t].pc = "read"
  /\ thr' = [thr EXCEPT ![t].pc = "ret", ![t].ret = Result(thr[t].op, memo)]
  /\ UNCHANGED <<once, memo>>

NextConc ==
  \/ \E t \in Threads, op \in {"Ok", "Message"} : Begin(t, op) /\ UNCHANGED seqVars
  \/ \E t \in Threads : Load(t) /\ UNCHANGED seqVars
  \/ \E t \in Threads : Lock(t) /\ UNCHANGED seqVars
  \/ \E t \in Threads : Check(t) /\ UNCHANGED seqVars
  \/ \E t \in Threads : Run(t) /\ UNCHANGED seqVars
  \/ \E t \in Threads : Store(t) /\ UNCHANGED seqVars
  \/ \E t \in Threads : Unlock(t) /\ UNCHANGED seqVars
  \/ \E t \in Threads : Read(t) /\ UNCHANGED seqVars

SpecConc == InitConc /\ [][NextConc]_vars

(***************************************************************************)
(* Properties.                                                             *)
(***************************************************************************)
IsNegation(q) == q.kind = "Predicate" /\ q.ok.body.b = "Not.ok"
Negand(q) == q.ok.body.v
IsWrap(f) == f.kind = "func" /\ f.body.b = "Not.wrap"
IsUnequal(p) == p.kind = "Predicate" /\ p.ok.body.b = "Equal.ok" /\ p.ok.body.got # p.ok.body.want
SameBool(a, b) == a.panic = b.panic /\ (~a.panic => a.ret.b = b.ret.b)
Prefixed(a, b) == a.panic = b.panic /\ (~a.panic => a.ret.toks = <<"not: ">> \o b.ret.toks)
Complement(a, b) == a.panic = b.panic /\ (~a.panic => a.ret.b = ~b.ret.b)

\* C1: Not of a Predicate p is a Predicate whose Ok() is the complement of
\* p.Ok() and whose Message() is "not: " followed by p.Message(); for
\* p = Equal(got, want) with got # want, p.Ok() is false and Not(p).Ok() true.
C1_NotPredicate ==
  /\ (last.op = "Not" /\ last.on.kind = "Predicate") =>
       /\ ~last.panic /\ x.kind = "Predicate"
       /\ Complement(Ok(x, st), Ok(last.on, st))
       /\ Prefixed(Message(x, st), Message(last.on, st))
  /\ (last.op = "Ok" /\ IsNegation(last.on)) =>
       Complement([panic |-> last.panic, ret |-> last.ret], Ok(Negand(last.on), pre))
  /\ (last.op = "Message" /\ IsNegation(last.on)) =>
       Prefixed([panic |-> last.panic, ret |-> last.ret], Message(Negand(last.on), pre))
  /\ (last.op = "Ok" /\ IsUnequal(last.on)) => ~last.panic /\ ~last.ret.b
  /\ (last.op = "Ok" /\ IsNegation(last.on) /\ IsUnequal(Negand(last.on))) =>
       ~last.panic /\ last.ret.b

C1_Witness ==
  /\ nots = 1 /\ IsUnequal(orig) /\ x = Not(orig, InitSt).val
  /\ last.op = "Ok" /\ last.on = x /\ last.ret = BoolV(TRUE)

\* C2: Not of a bool b is the bool !b itself, so Assert on Not(false) passes
\* and Assert on Not(true) fails.
C2_NotBool ==
  /\ (last.op = "Not" /\ last.on.kind = "bool") =>
       ~last.panic /\ x = BoolV(~last.on.b)
  /\ (last.op = "Assert" /\ orig.kind = "bool" /\ nots = 1) =>
       /\ ~last.panic
       /\ last.ret = BoolV(~orig.b)
       /\ last.errs = IF orig.b THEN 1 ELSE 0

C2_Witness ==
  /\ orig = BoolV(FALSE) /\ nots = 1 /\ x = BoolV(TRUE)
  /\ last.op = "Assert" /\ last.ret = BoolV(TRUE) /\ tb.errors = 0

\* C3: for a func() bool f, g = Not(f) is a func() bool built without calling
\* f; each call of g calls f exactly once and returns the complement of what
\* that call returned; after k calls of g, f has been called exactly k times.
C3_NotThunk ==
  /\ (last.op = "Not" /\ last.on.kind = "func" /\ last.on.typ = ThunkT) =>
       ~last.panic /\ x.kind = "func" /\ x.typ = ThunkT /\ st = pre
  /\ (last.op = "thunk" /\ Depth(last.on) >= 1 /\ Base(last.on).body.b = "user") =>
       LET id == Base(last.on).body.id
           f == UserRet(id, <<>>, pre.calls[id])
       IN /\ ~last.panic
          /\ st.calls[id] = pre.calls[id] + 1
          /\ last.ret = BoolV(IF Depth(last.on) % 2 = 1 THEN ~f.b ELSE f.b)
  /\ (x.kind = "func" /\ x.typ = ThunkT /\ Base(x).body.b = "user") =>
       st.calls[Base(x).body.id] = n.call

C3_Witness ==
  /\ orig = UserFunc("flip") /\ nots = 1
  /\ last.op = "thunk" /\ last.on = x /\ n.call = 2 /\ st.calls["flip"] = 2
  /\ last.ret = BoolV(TRUE)

\* C4: Not(f)(a, r1, ..., rn) for a variadic f calls f with the fixed
\* argument a and exactly the n variadic elements r1..rn, and returns the
\* negation of f(a, r1, ..., rn).
C4_VariadicForwarding ==
  (last.op = "call" /\ IsWrap(last.on) /\ last.on.typ.variadic
     /\ last.on.body.rv.body.b \in {"user", "builder"}) =>
    LET f == last.on.body.rv
        k == Len(f.typ.in) - 1
    IN /\ ~last.panic
       /\ last.ret = Negated("Predicate", Apply(f, last.args, pre).ret)
       /\ f.body.b = "user" =>
            /\ st.calls[f.body.id] = pre.calls[f.body.id] + 1
            /\ SubSeq(st.recv[f.body.id], 1, k) = SubSeq(last.args, 1, k)
            /\ st.recv[f.body.id][k + 1].items = SubSeq(last.args, k + 1, Len(last.args))

\* the values the model's Not accepts according to the documentation
Negatable(v) ==
  \/ v.kind \in {"bool", "Predicate"}
  \/ v.kind = "func" /\ Len(v.typ.out) = 1
       /\ v.typ.out[1] \in {"bool", "func() bool", "Predicate"}

\* C5: Not of a value outside the Negatable set panics in the call of Not:
\* it returns no value and nothing has been invoked when it panics.
C5_NotUnsupportedPanics ==
  (last.op = "Not" /\ ~Negatable(last.on)) =>
    last.panic /\ x = PanicVal /\ st = pre

C5_Witness ==
  /\ orig = UserFunc("two") /\ last.op = "Not" /\ last.on = orig
  /\ last.panic /\ st.calls["two"] = 0

\* C6: double negation restores the truth value: Not(Not(p)).Ok() = p.Ok(),
\* and Not(Not(f))(args).Ok() = f(args).Ok() for a function f returning a
\* Predicate.
C6_DoubleNegation ==
  /\ (last.op = "Ok" /\ IsNegation(last.on) /\ IsNegation(Negand(last.on))) =>
       SameBool([panic |-> last.panic, ret |-> last.ret],
                Ok(Negand(Negand(last.on)), pre))
  /\ (last.op = "call" /\ IsWrap(last.on) /\ IsWrap(last.on.body.rv)
        /\ last.on.body.out = "Predicate") =>
       LET d == Apply(last.on.body.rv.body.rv, last.args, pre) IN
       /\ last.panic = d.panic
       /\ ~last.panic => SameBool(Ok(last.ret, st), Ok(d.ret, d.st))

\* C7: for a function f whose one result is a bool, a func() bool or a
\* Predicate, a call Not(f)(args) calls f exactly once with args and returns
\* the complement of its result in the same shape.
C7_IndirectNot ==
  (last.op \in {"call", "thunk"} /\ last.on.kind = "func"
     /\ last.on.body.b \in {"Not.wrap", "Not.thunk"}) =>
    LET f == IF IsWrap(last.on) THEN last.on.body.rv ELSE last.on.body.v
        out == IF IsWrap(last.on) THEN last.on.body.out ELSE "bool"
        d == Apply(f, last.args, pre)
    IN /\ last.panic = d.panic
       /\ st = d.st
       /\ ~d.panic => last.ret = Negated(out, d.ret)

IsGuarded(p) ==
  /\ p.kind = "Predicate"
  /\ Base(p).ok.body.b \in {"Returns.ok", "ElementsMatch.ok", "SequenceDeepEqual.ok", "MapEqual.ok"}

\* C8: after any sequence of Ok() and Message() calls on a predicate built
\* by Returns, ElementsMatch, SequenceDeepEqual or MapEqual, or on Not of it,
\* the guarded computation has run exactly once if a call was made and not at
\* all otherwise.
C8_MemoizeOnceTotal ==
  IsGuarded(x) =>
    LET b == Base(x).ok.body
        k == IF n.ok + n.msg > 0 THEN 1 ELSE 0
    IN /\ st.cells[b.cell].runs = k
       /\ b.b = "Returns.ok" => st.calls[b.f.body.id] = k

C8_Witness ==
  /\ IsGuarded(x) /\ Base(x).ok.body.b = "Returns.ok" /\ Depth(x) = 1
  /\ n.ok >= 1 /\ n.msg >= 2
  /\ st.cells[Base(x).ok.body.cell].runs = 1

\* C9: the function given to Errors, ErrorsWith or Panics is executed at
\* most once however often Ok() and Message() are called.
C9_UserFunctionOnce ==
  (x.kind = "Predicate"
     /\ Base(x).ok.body.b \in {"Errors.ok", "ErrorsWith.ok", "Panics.ok"}) =>
    st.calls[Base(x).ok.body.f.body.id] <= 1

\* the value the guarded function leaves in the memoized variable
RECURSIVE Failures(_)
Failures(ps) ==
  IF Len(ps) = 0 THEN <<>>
  ELSE (IF Head(ps) THEN <<>> ELSE <<(<<"false">>)>>) \o Failures(Tail(ps))

Completed(m) ==
  CASE m.kind = "Returns" -> IF m.fpanics THEN IntV(0) ELSE m.fret
    [] m.kind \in {"Any", "All"} -> Msgs(Failures(m.ps))
    [] m.kind = "ElementsMatch" ->
         BoolV(\A e \in {m.got.items[i] : i \in 1..Len(m.got.items)}
                        \cup {m.want.items[i] : i \in 1..Len(m.want.items)} :
                 Cardinality({i \in 1..Len(m.got.items) : m.got.items[i] = e})
                   = Cardinality({i \in 1..Len(m.want.items) : m.want.items[i] = e}))

\* C10: when several goroutines make the first Ok() / Message() calls on one
\* memoized predicate, the guarded function runs exactly once, and a caller
\* returns only after that run has ended, with a result computed from the
\* value the run left.
C10_ConcurrentOnce ==
  /\ memo.runs <= 1
  /\ memo.calls <= 1
  /\ \A t \in Threads :
       thr[t].pc \in {"read", "ret"} =>
         /\ once.done /\ memo.runs = 1
         /\ memo.kind = "Returns" => memo.calls = 1
         /\ memo.val = Completed(memo)
  /\ \A t \in Threads :
       thr[t].pc = "ret" =>
         thr[t].ret = Result(thr[t].op, [memo EXCEPT !.val = Completed(memo)])

C10_Witness ==
  /\ memo.kind = "Any" /\ memo.ps = <<FALSE, FALSE>>
  /\ thr[1].pc = "ret" /\ thr[2].pc = "ret"
  /\ thr[1].op = "Ok" /\ thr[2].op = "Message"
  /\ thr[1].ret = BoolV(FALSE)
  /\ memo.runs = 1

\* what assert has to return for a: the truth value of a evaluated from s
Truth(a, s) ==
  CASE a.kind = "bool" -> R(s, a)
    [] a.kind = "func" -> Invoke(a, <<>>, s)
    [] a.kind = "Predicate" -> Ok(a, s)

IsAssert(l) == l.op \in {"Assert", "Assertf"}

\* C14: assert returns (b, "") for a bool b; for a func() bool f it calls f
\* once and returns (f(), ""); for a Predicate p it returns (p.Ok(),
\* p.Message()), running both thunks once each whether p.Ok() is true or false.
C14_AssertNormalises ==
  /\ (IsAssert(last) /\ last.on.kind = "bool") =>
       ~last.panic /\ last.ret = last.on /\ last.auto = <<>> /\ st = pre
  /\ (IsAssert(last) /\ last.on.kind = "func") =>
       /\ SameBool([panic |-> last.panic, ret |-> last.ret], Invoke(last.on, <<>>, pre))
       /\ st = Invoke(last.on, <<>>, pre).st
       /\ last.auto = <<>>
       /\ Base(last.on).body.b = "user" =>
            st.calls[Base(last.on).body.id] = pre.calls[Base(last.on).body.id] + 1
  /\ (IsAssert(last) /\ last.on.kind = "Predicate") =>
       /\ last.panic = (Ok(last.on, pre).panic \/ Message(last.on, Ok(last.on, pre).st).panic)
       /\ ~last.panic =>
            /\ last.ret = Ok(last.on, pre).ret
            /\ last.auto = Message(last.on, Ok(last.on, pre).st).ret.toks
            /\ st = Message(last.on, Ok(last.on, pre).st).st
       /\ (~last.panic /\ Base(last.on).ok.body.b \in {"Errors.ok", "ErrorsWith.ok", "Panics.ok"}) =>
            LET id == Base(last.on).ok.body.f.body.id IN st.calls[id] = pre.calls[id] + 1

C14_Witness ==
  /\ last.op = "Assert" /\ last.on = Errors(UserFunc("errFoo"))
  /\ last.ret = BoolV(TRUE) /\ last.auto = <<"expected function to return a non-nil error">>
  /\ st.calls["errFoo"] = 1 /\ tb.errors = 0

\* C15: Assert returns the evaluation result of the assertion, calls tb.Error
\* once with the auto message when the result is false and not at all when it
\* is true, and never calls Fatal, Fatalf or FailNow.
C15_AssertSoftFail ==
  /\ tb.hard = 0
  /\ (last.op = "Assert" /\ ~last.panic) =>
       /\ last.ret = Truth(last.on, pre).ret
       /\ last.errs = IF last.ret.b THEN 0 ELSE 1
       /\ ~last.ret.b => tb.message = last.auto

C15_Witness ==
  /\ last.op = "Assert" /\ ~last.panic /\ last.ret = BoolV(FALSE)
  /\ tb.errors = 2 /\ tb.message = <<"false">> /\ ops = 2

\* C16: Assertf passes or fails as Assert does on the same assertion, and on
\* failure it records the caller's formatted string, never the auto message.
C16_AssertfOverride ==
  (last.op = "Assertf" /\ ~last.panic) =>
    /\ last.ret = Truth(last.on, pre).ret
    /\ last.errs = IF last.ret.b THEN 0 ELSE 1
    /\ ~last.ret.b =>
         /\ tb.message = Sprintf(last.args[1].toks, Tail(last.args))
         /\ tb.message # last.auto

C16_Witness ==
  /\ last.op = "Assertf" /\ last.on = Nil(IntV(1)) /\ last.ret = BoolV(FALSE)
  /\ tb.errors = 1 /\ tb.message = <<"want ", "7">>
  /\ last.auto = <<"expected ", "1", " to be nil">>

\* whether a child of Any / All passes, and the messages of the failing ones
Passes(p) == Ok(p, InitSt).ret.b

RECURSIVE FailMsgs(_)
FailMsgs(ps) ==
  IF Len(ps) = 0 THEN <<>>
  ELSE (IF Passes(Head(ps)) THEN <<>> ELSE <<Message(Head(ps), InitSt).ret.toks>>)
       \o FailMsgs(Tail(ps))

\* the children whose evaluation is counted: Errors(f) calls f on every Ok()
Counted(ps, id) == Cardinality({i \in 1..Len(ps) : ps[i] = Errors(UserFunc(id))})

IsComb(p, name) == p.kind = "Predicate" /\ p.ok.body.b = name

\* C11: Any(ps...).Ok() is true iff some child passes (false for no children);
\* every child is evaluated, also after one that passed; Message() lists the
\* messages of the failing children in argument order and of no passing child.
C11_Any ==
  /\ (last.op = "Ok" /\ IsComb(last.on, "Any.ok")) =>
       /\ ~last.panic
       /\ last.ret = BoolV(\E i \in 1..Len(last.on.ok.body.ps) : Passes(last.on.ok.body.ps[i]))
  /\ (last.op = "Message" /\ IsComb(last.on, "Any.ok")) =>
       /\ ~last.panic
       /\ last.ret = Text(<<"expected any to be true, all failed: ", "[">>
                          \o Join(FailMsgs(last.on.ok.body.ps)) \o <<"]">>)
  /\ (last.op \in {"Ok", "Message", "Assert", "Assertf"} /\ IsComb(last.on, "Any.ok")) =>
       st.calls["errNil"] = Counted(last.on.ok.body.ps, "errNil")

C11_Witness ==
  /\ last.op = "Message" /\ IsComb(last.on, "Any.ok")
  /\ last.on.ok.body.ps = <<True, Errors(UserFunc("errNil"))>>
  /\ n.ok = 1 /\ n.msg = 1 /\ st.calls["errNil"] = 1

\* C12: All(ps...).Ok() is true iff every child passes (true for no children);
\* every child is evaluated, also after one that failed; Message() lists the
\* messages of the failing children in argument order.
C12_All ==
  /\ (last.op = "Ok" /\ IsComb(last.on, "All.ok")) =>
       /\ ~last.panic
       /\ last.ret = BoolV(\A i \in 1..Len(last.on.ok.body.ps) : Passes(last.on.ok.body.ps[i]))
  /\ (last.op = "Message" /\ IsComb(last.on, "All.ok")) =>
       /\ ~last.panic
       /\ last.ret = Text(<<"expected all to be true, failures: ", "[">>
                          \o Join(FailMsgs(last.on.ok.body.ps)) \o <<"]">>)
  /\ (last.op \in {"Ok", "Message", "Assert", "Assertf"} /\ IsComb(last.on, "All.ok")) =>
       st.calls["errNil"] = Counted(last.on.ok.body.ps, "errNil")

C12_Witness ==
  /\ last.op = "Message" /\ IsComb(last.on, "All.ok")
  /\ last.on.ok.body.ps = <<False, Errors(UserFunc("errNil"))>>
  /\ last.ret = Text(<<"expected all to be true, failures: ", "[",
                       "false", " ", "expected function to return a non-nil error", "]">>)
  /\ st.calls["errNil"] = 1

IsNotComb(f, name) ==
  IsWrap(f) /\ f.body.rv.body.b = "builder" /\ f.body.rv.body.name = name

\* C13: for a non-empty list ps, the call Not(Any)(ps...) does not panic and
\* yields a predicate that passes iff every child fails; Not(All)(ps...) does
\* not panic and yields a predicate that passes iff some child fails.
C13_NotCombinators ==
  /\ (last.op = "call" /\ IsNotComb(last.on, "Any") /\ Len(last.args) >= 1) =>
       /\ ~last.panic
       /\ SameBool(Ok(last.ret, st),
                   R(st, BoolV(\A i \in 1..Len(last.args) : ~Passes(last.args[i]))))
  /\ (last.op = "call" /\ IsNotComb(last.on, "All") /\ Len(last.args) >= 1) =>
       /\ ~last.panic
       /\ SameBool(Ok(last.ret, st),
                   R(st, BoolV(\E i \in 1..Len(last.args) : ~Passes(last.args[i]))))

\* no user function has been called and no guarded computation has run
Untouched(s) ==
  /\ \A id \in UserIds : s.calls[id] = 0
  /\ \A c \in 1..Len(s.cells) : ~s.cells[c].done /\ s.cells[c].runs = 0

\* s2 is s1 with at most fresh cells added
OnlyBuilt(s1, s2) ==
  /\ s2.calls = s1.calls
  /\ Len(s2.cells) >= Len(s1.cells)
  /\ SubSeq(s2.cells, 1, Len(s1.cells)) = s1.cells
  /\ \A c \in (Len(s1.cells) + 1)..Len(s2.cells) : ~s2.cells[c].done /\ s2.cells[c].runs = 0

\* C17: building a predicate and applying Not, in each of its cases, calls no
\* user function and evaluates no predicate: nothing has run until the first
\* Ok(), Message(), Assert or call, and a builder called through a negated
\* function builds without evaluating.
C17_LazyConstruction ==
  /\ ops = 0 => Untouched(st)
  /\ last.op \in {"build", "Not"} => OnlyBuilt(pre, st)
  /\ (last.op = "call" /\ IsWrap(last.on) /\ Base(last.on.body.rv).body.b = "builder") =>
       OnlyBuilt(pre, st)

C17_Witness ==
  /\ orig.kind = "Predicate" /\ orig.ok.body.b = "Returns.ok"
  /\ orig.ok.body.f = UserFunc("counter")
  /\ nots = 2 /\ last.op = "Not" /\ ops = 0
  /\ st.calls["counter"] = 0 /\ ~st.cells[1].done

\* C18: Not keeps the shape of a supported argument: bool to bool, func() bool
\* to func() bool, Predicate to Predicate, and a function to a function of the
\* same type (parameters, variadic-ness, result).
C18_NotKeepsShape ==
  (last.op = "Not" /\ Negatable(last.on)) =>
    /\ ~last.panic
    /\ x.kind = last.on.kind
    /\ TypeOf(x) = TypeOf(last.on)
    /\ x.kind = "func" => x.typ = last.on.typ

C18_Witness ==
  /\ last.op = "Not" /\ last.on = UserFunc("lenIs2")
  /\ IsWrap(x) /\ x.typ.variadic /\ x.typ = UserT("lenIs2")

\* C20: Panics(f).Ok() is true iff f panics; the panic never leaves Ok(), so
\* Ok() and Assert on Panics(f) and on the result of Not(Panics)(f) return.
C20_PanicsRecovers ==
  /\ (last.op \in {"Ok", "Assert", "Assertf"} /\ last.on.kind = "Predicate"
        /\ Base(last.on).ok.body.b = "Panics.ok") =>
       LET f == Base(last.on).ok.body.f
           panics == UserRet(f.body.id, <<>>, pre.calls[f.body.id]) = PanicVal
       IN /\ ~last.panic
          /\ last.ret = BoolV(IF Depth(last.on) % 2 = 0 THEN panics ELSE ~panics)
  /\ (last.op = "call" /\ IsNotComb(last.on, "Panics")) =>
       ~last.panic /\ IsNegation(last.ret)

C20_Witness ==
  /\ call.done /\ IsNotComb(call.fn, "Panics") /\ call.args = <<UserFunc("panicker")>>
  /\ last.op = "Assert" /\ last.on = x /\ ~last.panic
  /\ last.ret = BoolV(FALSE) /\ last.errs = 1
  /\ st.calls["panicker"] = 1

\* what the Not of observable.go negates
SupportedObservableGo(v) ==
  \/ v.kind \in {"bool", "Predicate"}
  \/ v.kind = "func" /\ v.typ = ThunkT
  \/ v.kind = "func" /\ Len(v.typ.out) = 1 /\ v.typ.out[1] = "Predicate"

\* C19: the Not of observable.go returns the zero value of an unsupported
\* argument's type, without a panic and without calling anything: 0 for 42,
\* a nil function for a function that does not return exactly one Predicate.
C19_NotZeroValue ==
  (last.op = "Not" /\ ~SupportedObservableGo(last.on)) =>
    /\ ~last.panic
    /\ st = pre
    /\ last.on.kind = "int" => x = IntV(0)
    /\ last.on.kind = "func" => IsNil(x) /\ x.kind = "func" /\ x.typ = last.on.typ

C19_Witness ==
  /\ orig = UserFunc("seven") /\ nots = 1 /\ last.op = "Not" /\ last.on = orig
  /\ ~last.panic /\ IsNil(x) /\ st.calls["seven"] = 0

IsReturns(p) == p.kind = "Predicate" /\ p.ok.body.b = "Returns.ok"

\* the value the first call of the function of a Returns predicate returns
FirstGot(p) == UserRet(p.ok.body.f.body.id, <<>>, 0)

\* a Returns predicate whose function returns a value on its first call
IsReturning(p) == IsReturns(p) /\ FirstGot(p).kind # "panic"

\* the message of a Returns predicate that wanted want and got got
ReturnsText(want, got) ==
  <<"expected ">> \o FmtV(want) \o <<", got ">> \o FmtV(got)

\* C21: for Returns(f, want) with an f whose result changes from call to
\* call, every Ok() and every Message() is computed from the value of the one
\* memoized call: Ok() is got == want and Message() reports that same got,
\* whichever is called first, and f is called once at most.
C21_ReturnsConsistent ==
  /\ (last.op = "Ok" /\ IsReturning(last.on)) =>
       /\ ~last.panic
       /\ last.ret = BoolV(FirstGot(last.on) = last.on.ok.body.want)
  /\ (last.op = "Message" /\ IsReturning(last.on)) =>
       /\ ~last.panic
       /\ last.ret = Text(ReturnsText(last.on.ok.body.want, FirstGot(last.on)))
  /\ (IsAssert(last) /\ IsReturning(last.on)) =>
       /\ ~last.panic
       /\ last.ret = BoolV(FirstGot(last.on) = last.on.ok.body.want)
       /\ last.auto = ReturnsText(last.on.ok.body.want, FirstGot(last.on))
  /\ IsReturning(x) =>
       st.calls[x.ok.body.f.body.id] = IF n.ok + n.msg > 0 THEN 1 ELSE 0

C21_Witness ==
  /\ IsReturning(x) /\ x.ok.body.f = UserFunc("counter") /\ x.ok.body.want = IntV(1)
  /\ last.op = "Ok" /\ last.on = x /\ last.ret = BoolV(TRUE)
  /\ n.ok = 1 /\ n.msg = 2 /\ st.calls["counter"] = 1

IsCombinator(p) == IsComb(p, "Any.ok") \/ IsComb(p, "All.ok")

\* the calls one evaluation of the children ps makes, for the combinator of
\* cell c: Ok() of every child in argument order, each failing child's
\* Message() right after its Ok()
RECURSIVE ChildCalls(_, _, _)
ChildCalls(ps, i, c) ==
  IF i > Len(ps) THEN <<>>
  ELSE <<[cell |-> c, child |-> i, thunk |-> "Ok"]>>
       \o (IF Passes(ps[i]) THEN <<>> ELSE <<[cell |-> c, child |-> i, thunk |-> "Message"]>>)
       \o ChildCalls(ps, i + 1, c)

\* how often the thunk of child i has been called
CalledTimes(i, thunk) ==
  Cardinality({k \in 1..Len(st.log) : st.log[k].child = i /\ st.log[k].thunk = thunk})

\* C22: for Any(ps...) and All(ps...), the first call of Ok() or Message()
\* evaluates the children in argument order and later calls evaluate nothing:
\* after any number of calls every child's Ok() has run once, every failing
\* child's Message() once and no passing child's Message().
C22_ChildrenOnce ==
  IsCombinator(x) =>
    LET b == x.ok.body IN
    /\ n.ok + n.msg = 0 => st.log = <<>>
    /\ n.ok + n.msg > 0 =>
         /\ st.log = ChildCalls(b.ps, 1, b.cell)
         /\ \A i \in 1..Len(b.ps) :
              /\ CalledTimes(i, "Ok") = 1
              /\ CalledTimes(i, "Message") = IF Passes(b.ps[i]) THEN 0 ELSE 1
         /\ st.cells[b.cell].runs = 1
         /\ st.calls["errNil"] = Counted(b.ps, "errNil")

C22_Witness ==
  /\ IsComb(x, "All.ok")
  /\ x.ok.body.ps = <<Errors(UserFunc("errNil")), True>>
  /\ last.op = "Message" /\ last.on = x /\ ~last.panic
  /\ n.ok = 1 /\ n.msg = 2
  /\ Len(st.log) = 3 /\ st.calls["errNil"] = 1

\* a Returns predicate whose function panics
IsPanicking(p) == IsReturns(p) /\ FirstGot(p).kind = "panic"

\* C23: when f panics in the first Ok() or Message() of Returns(f, want), the
\* panic reaches the caller and the once is used up: f is not called again,
\* and every later Ok() returns zero value == want (true for a zero want),
\* every later Message() reports the zero value as got.
C23_ReturnsPanicConsumed ==
  /\ IsPanicking(x) =>
       LET f == x.ok.body.f.body.id
           c == st.cells[x.ok.body.cell]
       IN /\ st.calls[f] = IF n.ok + n.msg > 0 THEN 1 ELSE 0
          /\ c.done = (n.ok + n.msg > 0)
          /\ c.val = ZeroOf(x.ok.body.want)
  /\ (last.op \in {"Ok", "Message", "Assert", "Assertf"} /\ IsPanicking(last.on)) =>
       LET f == last.on.ok.body.f.body.id
           want == last.on.ok.body.want
       IN IF pre.calls[f] = 0
          THEN last.panic
          ELSE /\ ~last.panic
               /\ last.op = "Ok" => last.ret = BoolV(ZeroOf(want) = want)
               /\ last.op = "Message" => last.ret = Text(ReturnsText(want, ZeroOf(want)))
               /\ IsAssert(last) =>
                    /\ last.ret = BoolV(ZeroOf(want) = want)
                    /\ last.auto = ReturnsText(want, ZeroOf(want))
                    /\ last.errs = IF ZeroOf(want) = want THEN 0 ELSE 1

C23_Witness ==
  /\ IsPanicking(x) /\ x.ok.body.f = UserFunc("boom") /\ x.ok.body.want = IntV(0)
  /\ last.op = "Ok" /\ last.on = x /\ ~last.panic /\ last.ret = BoolV(TRUE)
  /\ n.ok = 1 /\ n.msg = 1 /\ pre.calls["boom"] = 1 /\ st.calls["boom"] = 1
====
